---- MODULE Spec2Model ----
(***************************************************************************)
(* Cox-Ross-Rubinstein binomial option pricer (binomial_price) and its     *)
(* finite-difference Greeks wrapper (greeks_binomial), src/binomial_model. *)
(*                                                                         *)
(* Reals are carried as fixed-point integers: the real x is the integer    *)
(* x * SCALE, SCALE = 10^8.  Every product and quotient is rounded to      *)
(* the grid (toward zero), as every float operation of the source is       *)
(* rounded to the nearest double; exp and sqrt are computed on the grid    *)
(* (series, bisection), not assumed.                                       *)
(***************************************************************************)
EXTENDS Integers, Sequences, FiniteSets, TLC

VARIABLES
    mode,     \* the entry point the caller uses: "price" or "greeks"
    base,     \* the caller's arguments
    gpc,      \* greeks_binomial: where it stands
    calls,    \* greeks_binomial: the arguments of the binomial_price calls made
    vals,     \* greeks_binomial: the prices those calls returned
    loc,      \* greeks_binomial: the locals delta, gamma, theta, vega, rho
    gerr,     \* greeks_binomial: the exception leaving it
    result,   \* greeks_binomial: <<the returned dictionary>>, <<>> before
    pc,       \* binomial_price: where it stands
    a,        \* binomial_price: its arguments
    dt, u, d, p, disc,   \* binomial_price: the lattice parameters
    V,        \* binomial_price: the value layer
    i,        \* binomial_price: the next value of the loop variable
    steps,    \* binomial_price: loop passes done
    ret,      \* binomial_price: the returned price
    err       \* binomial_price: the exception raised

vars == <<mode, base, gpc, calls, vals, loc, gerr, result,
          pc, a, dt, u, d, p, disc, V, i, steps, ret, err>>

gvars == <<mode, base, gpc, calls, vals, loc, gerr, result>>

----------------------------------------------------------------------------
(* Fixed-point arithmetic standing for the source's double arithmetic.     *)

BASE == 10 ^ 4

SCALE == BASE * BASE

Abs(x) == IF x < 0 THEN -x ELSE x

Sgn(x) == IF x < 0 THEN -1 ELSE 1

Max(x, y) == IF x >= y THEN x ELSE y

Min(x, y) == IF x <= y THEN x ELSE y

\* |x * y| on the grid, for |x|, |y| < 10: split in BASE digits so that no
\* partial product leaves 32 bits.
MulAbs(x, y) ==
    LET x1 == x \div BASE
        x0 == x % BASE
        y1 == y \div BASE
        y0 == y % BASE
    IN  x1 * y1 + ((x1 * y0 + x0 * y1 + ((x0 * y0) \div BASE)) \div BASE)

\* x * y
Mul(x, y) == Sgn(x) * Sgn(y) * MulAbs(Abs(x), Abs(y))

RECURSIVE LongDiv(_, _, _)
\* the first k decimal digits of rem / y, for 0 <= rem < y
LongDiv(rem, y, k) ==
    IF k = 0 THEN 0
    ELSE LET r10 == rem * 10
         IN  (r10 \div y) * (10 ^ (k - 1)) + LongDiv(r10 % y, y, k - 1)

DivAbs(x, y) == (x \div y) * SCALE + LongDiv(x % y, y, 8)

\* x / y for y # 0
Div(x, y) == Sgn(x) * Sgn(y) * DivAbs(Abs(x), Abs(y))

\* x / n and x * n for a fixed-point x and an integer n # 0
DivInt(x, n) == Sgn(x) * Sgn(n) * (Abs(x) \div Abs(n))

RECURSIVE ExpTerms(_, _, _)
\* term + term*x/k + term*x^2/(k(k+1)) + ... until a term rounds to zero
ExpTerms(x, term, k) ==
    IF term = 0 THEN 0
    ELSE term + ExpTerms(x, DivInt(Mul(term, x), k), k + 1)

\* np.exp(x)
Exp(x) == ExpTerms(x, SCALE, 1)

RECURSIVE SqrtSearch(_, _, _)
\* the least r in lo..hi with r * r >= x (hi satisfies it)
SqrtSearch(x, lo, hi) ==
    IF lo >= hi THEN hi
    ELSE LET mid == (lo + hi) \div 2
         IN  IF MulAbs(mid, mid) >= x THEN SqrtSearch(x, lo, mid)
             ELSE SqrtSearch(x, mid + 1, hi)

\* np.sqrt(x) for 0 <= x < 16
Sqrt(x) == SqrtSearch(x, 0, 4 * SCALE)

RECURSIVE Pow(_, _)
\* x ** n for an integer n >= 0
Pow(x, n) == IF n <= 0 THEN SCALE ELSE Mul(Pow(x, n - 1), x)

----------------------------------------------------------------------------
(* binomial_price: the statements of the function as operators.  x is the  *)
(* record of its arguments [S, K, T, r, sigma, N, option, style, q].       *)

ErrZeroDivision == "ZeroDivisionError"

ErrConfig == "ValueError: T must be > 0 and N must be >= 1"

ErrProbability == "ValueError: Invalid probability p"

ErrIndex == "IndexError"

\* dt = T / N, for N # 0 (Python raises ZeroDivisionError on N = 0)
StepLength(x) == DivInt(x.T, x.N)

\* u = np.exp(sigma * np.sqrt(dt))
UpFactor(x, dt0) == Exp(Mul(x.sigma, Sqrt(dt0)))

\* d = 1.0 / u
DownFactor(u0) == Div(SCALE, u0)

\* RiskNeutralP with the dividend yield left out of the drift
RiskNeutralPNoDividend(x, dt0, u0, d0) == Div(Exp(Mul(x.r, dt0)) - d0, u0 - d0)

\* p = (np.exp((r - q) * dt) - d) / (u - d), for u # d
RiskNeutralP(x, dt0, u0, d0) == Div(Exp(Mul(x.r - x.q, dt0)) - d0, u0 - d0)

\* ProbabilityInvalid with the bounds of the interval let through
ProbabilityInvalidNonStrict(x, dt0, u0, d0) ==
    IF u0 = d0 THEN TRUE
    ELSE LET p0 == Div(Exp(Mul(x.r - x.q, dt0)) - d0, u0 - d0)
         IN  ~(0 <= p0 /\ p0 <= SCALE)

\* not (0 < p < 1).  With u = d numpy divides by zero without raising and p
\* is inf, -inf or nan, for each of which 0 < p < 1 is false.
ProbabilityInvalid(x, dt0, u0, d0) ==
    IF u0 = d0 THEN TRUE
    ELSE LET p0 == RiskNeutralP(x, dt0, u0, d0)
         IN  ~(0 < p0 /\ p0 < SCALE)

\* disc = np.exp(-r * dt)
DiscountFactor(x, dt0) == Exp(Mul(-x.r, dt0))

\* [S * (u**j) * (d**(n - j)) for j in range(n + 1)]
NodePrices(x, u0, d0, n) ==
    [j \in 1..(n + 1) |-> Mul(Mul(x.S, Pow(u0, j - 1)), Pow(d0, n - (j - 1)))]

\* Payoff with the test turned round: a put only for 'put', a call otherwise
PayoffCallByDefault(x, prices) ==
    IF x.option = "put"
    THEN [j \in 1..Len(prices) |-> Max(x.K - prices[j], 0)]
    ELSE [j \in 1..Len(prices) |-> Max(prices[j] - x.K, 0)]

\* np.maximum(prices - K, 0.0) if option == 'call' else np.maximum(K - prices, 0.0)
Payoff(x, prices) ==
    IF x.option = "call"
    THEN [j \in 1..Len(prices) |-> Max(prices[j] - x.K, 0)]
    ELSE [j \in 1..Len(prices) |-> Max(x.K - prices[j], 0)]

\* the Python slice W[lo:hi] for 0 <= lo
Slice(W, lo, hi) == [j \in 1..Max(0, Min(hi, Len(W)) - lo) |-> W[lo + j]]

\* Continuation with the weights of the two children exchanged
ContinuationSwapped(W, n, p0, disc0) ==
    LET upper == Slice(W, 1, n + 2)
        lower == Slice(W, 0, n + 1)
    IN  [j \in 1..Len(lower) |->
            Mul(disc0, Mul(SCALE - p0, upper[j]) + Mul(p0, lower[j]))]

\* disc * (p * V[1:i+2] + (1 - p) * V[0:i+1])
Continuation(W, n, p0, disc0) ==
    LET upper == Slice(W, 1, n + 2)
        lower == Slice(W, 0, n + 1)
    IN  [j \in 1..Len(lower) |->
            Mul(disc0, Mul(p0, upper[j]) + Mul(SCALE - p0, lower[j]))]

\* BackwardStep with np.minimum in place of np.maximum
BackwardStepMinimum(x, W, n, u0, d0, p0, disc0) ==
    LET cont == Continuation(W, n, p0, disc0)
    IN  IF x.style = "amer"
        THEN LET exercise == Payoff(x, NodePrices(x, u0, d0, n))
             IN  [j \in 1..Len(cont) |-> Min(cont[j], exercise[j])]
        ELSE cont

\* BackwardStep with the exercise payoff taken at the prices of maturity
BackwardStepMaturityPrices(x, W, n, u0, d0, p0, disc0) ==
    LET cont == Continuation(W, n, p0, disc0)
    IN  IF x.style = "amer"
        THEN LET exercise == Payoff(x, NodePrices(x, u0, d0, x.N))
             IN  [j \in 1..Len(cont) |-> Max(cont[j], exercise[j])]
        ELSE cont

\* one pass of the loop body for step n
BackwardStep(x, W, n, u0, d0, p0, disc0) ==
    LET cont == Continuation(W, n, p0, disc0)
    IN  IF x.style = "amer"
        THEN LET exercise == Payoff(x, NodePrices(x, u0, d0, n))
             IN  [j \in 1..Len(cont) |-> Max(cont[j], exercise[j])]
        ELSE cont

RECURSIVE LayerAt(_, _, _, _, _, _)
\* the value layer the function holds once the steps N-1, ..., n are done
\* (n = N: the payoff at maturity)
LayerAt(x, n, u0, d0, p0, disc0) ==
    IF n >= x.N THEN Payoff(x, NodePrices(x, u0, d0, x.N))
    ELSE BackwardStep(x, LayerAt(x, n + 1, u0, d0, p0, disc0), n, u0, d0, p0, disc0)

\* the whole call as a function of its arguments: what it raises or returns
PriceOutcome(x) ==
    IF x.N = 0 THEN [status |-> ErrZeroDivision, value |-> 0]
    ELSE LET dt0 == StepLength(x)
         IN  IF dt0 <= 0 THEN [status |-> ErrConfig, value |-> 0]
             ELSE LET u0 == UpFactor(x, dt0)
                      d0 == DownFactor(u0)
                  IN  IF ProbabilityInvalid(x, dt0, u0, d0)
                      THEN [status |-> ErrProbability, value |-> 0]
                      ELSE LET p0 == RiskNeutralP(x, dt0, u0, d0)
                               W == LayerAt(x, 0, u0, d0, p0, DiscountFactor(x, dt0))
                           IN  IF Len(W) = 0
                               THEN [status |-> ErrIndex, value |-> 0]
                               ELSE [status |-> "ok", value |-> W[1]]

----------------------------------------------------------------------------
(* greeks_binomial: b is the record of its arguments, the pricer's plus    *)
(* the bumps h_S, h_sigma, h_T, h_r.                                       *)

\* the floor 1e-6 of the down-bumped expiry
TFloor == SCALE \div (10 ^ 6)

Args(b) ==
    [S |-> b.S, K |-> b.K, T |-> b.T, r |-> b.r, sigma |-> b.sigma, N |-> b.N,
     option |-> b.option, style |-> b.style, q |-> b.q]

Tp(b) == b.T + b.h_T

\* Tm without the floor
TmNoFloor(b) == b.T - b.h_T

Tm(b) == Max(b.T - b.h_T, TFloor)

\* CallArgs with q left to its default 0.0 in the down-time call
CallArgsDefaultQ(b, k) ==
    CASE k = 1 -> Args(b)
      [] k = 2 -> [Args(b) EXCEPT !.S = b.S + b.h_S]
      [] k = 3 -> [Args(b) EXCEPT !.S = b.S - b.h_S]
      [] k = 4 -> [Args(b) EXCEPT !.T = Tp(b)]
      [] k = 5 -> [Args(b) EXCEPT !.T = Tm(b), !.q = 0]
      [] k = 6 -> [Args(b) EXCEPT !.sigma = b.sigma + b.h_sigma]
      [] k = 7 -> [Args(b) EXCEPT !.sigma = b.sigma - b.h_sigma]
      [] k = 8 -> [Args(b) EXCEPT !.r = b.r + b.h_r]
      [] k = 9 -> [Args(b) EXCEPT !.r = b.r - b.h_r]

\* the arguments of the k-th binomial_price call, in the order of the code
CallArgs(b, k) ==
    CASE k = 1 -> Args(b)
      [] k = 2 -> [Args(b) EXCEPT !.S = b.S + b.h_S]
      [] k = 3 -> [Args(b) EXCEPT !.S = b.S - b.h_S]
      [] k = 4 -> [Args(b) EXCEPT !.T = Tp(b)]
      [] k = 5 -> [Args(b) EXCEPT !.T = Tm(b)]
      [] k = 6 -> [Args(b) EXCEPT !.sigma = b.sigma + b.h_sigma]
      [] k = 7 -> [Args(b) EXCEPT !.sigma = b.sigma - b.h_sigma]
      [] k = 8 -> [Args(b) EXCEPT !.r = b.r + b.h_r]
      [] k = 9 -> [Args(b) EXCEPT !.r = b.r - b.h_r]

NCalls == 9

\* theta = (vp - vm) / (2 * h_T) * (-1)
Theta(b, vp, vm) == Div(vp - vm, 2 * b.h_T) * (-1)

----------------------------------------------------------------------------
(* The caller's inputs.                                                    *)

MaxN == 3

\* the decimal n / m, for m a divisor of SCALE
Dec(n, m) == n * (SCALE \div m)

\* (r, sigma, q): an ordinary market; a rate too high for a coarse lattice
\* (p >= 1, and p = 1 at dt = 1/4); zero volatility (u = d); a volatility
\* equal to the bump h_sigma; a dividend yield too high for a coarse lattice
\* (p <= 0)
Markets ==
    { [r |-> Dec(5, 100), sigma |-> Dec(25, 100), q |-> Dec(2, 100)],
      [r |-> Dec(50, 100), sigma |-> Dec(25, 100), q |-> 0],
      [r |-> Dec(5, 100), sigma |-> 0, q |-> 0],
      [r |-> 0, sigma |-> Dec(10, 100), q |-> 0],
      [r |-> 0, sigma |-> Dec(25, 100), q |-> Dec(50, 100)] }

Expiries == { -SCALE, 0, TFloor, Dec(1, 4), Dec(1, 2) }

StepCounts == (-2)..MaxN

Options == { "call", "put", "Call" }

Styles == { "amer", "euro", "american" }

Inputs ==
    { [S |-> 2 * SCALE, K |-> 2 * SCALE, T |-> t, r |-> m.r, sigma |-> m.sigma,
       N |-> n, option |-> o, style |-> st, q |-> m.q,
       h_S |-> Dec(1, 4), h_sigma |-> Dec(1, 10), h_T |-> Dec(1, 4),
       h_r |-> Dec(1, 10000)] :
      t \in Expiries, n \in StepCounts, m \in Markets, o \in Options, st \in Styles }

NoLocals == [delta |-> 0, gamma |-> 0, theta |-> 0, vega |-> 0, rho |-> 0]

----------------------------------------------------------------------------
(* The state machine.                                                      *)

Init ==
    /\ mode \in { "price", "greeks" }
    /\ base \in Inputs
    /\ gpc = IF mode = "greeks" THEN "call" ELSE "none"
    /\ calls = << >>
    /\ vals = << >>
    /\ loc = NoLocals
    /\ gerr = ""
    /\ result = << >>
    /\ pc = IF mode = "price" THEN "start" ELSE "idle"
    /\ a = Args(base)
    /\ dt = 0 /\ u = 0 /\ d = 0 /\ p = 0 /\ disc = 0
    /\ V = << >>
    /\ i = 0
    /\ steps = 0
    /\ ret = 0
    /\ err = ""

\* lines 23-25: dt = T / N; if dt <= 0: raise ValueError
PriceEnter ==
    /\ pc = "start"
    /\ IF a.N = 0
       THEN /\ pc' = "raised"
            /\ err' = ErrZeroDivision
            /\ dt' = dt
       ELSE /\ dt' = StepLength(a)
            /\ IF dt' <= 0
               THEN pc' = "raised" /\ err' = ErrConfig
               ELSE pc' = "lattice" /\ err' = err
    /\ UNCHANGED <<gvars, a, u, d, p, disc, V, i, steps, ret>>

\* lines 28-36: u, d, p; if not (0 < p < 1): raise ValueError
PriceLattice ==
    /\ pc = "lattice"
    /\ u' = UpFactor(a, dt)
    /\ d' = DownFactor(u')
    /\ IF ProbabilityInvalid(a, dt, u', d')
       THEN /\ pc' = "raised"
            /\ err' = ErrProbability
            /\ p' = IF u' = d' THEN p ELSE RiskNeutralP(a, dt, u', d')
       ELSE /\ pc' = "maturity"
            /\ err' = err
            /\ p' = RiskNeutralP(a, dt, u', d')
    /\ UNCHANGED <<gvars, a, dt, disc, V, i, steps, ret>>

\* lines 39-48: ST, the payoff at maturity, disc
PriceMaturity ==
    /\ pc = "maturity"
    /\ V' = Payoff(a, NodePrices(a, u, d, a.N))
    /\ disc' = DiscountFactor(a, dt)
    /\ i' = a.N - 1
    /\ pc' = "loop"
    /\ UNCHANGED <<gvars, a, dt, u, d, p, steps, ret, err>>

\* lines 51-64: one pass of for i in range(N - 1, -1, -1)
PriceBackward ==
    /\ pc = "loop"
    /\ i >= 0
    /\ V' = BackwardStep(a, V, i, u, d, p, disc)
    /\ i' = i - 1
    /\ steps' = steps + 1
    /\ UNCHANGED <<gvars, pc, a, dt, u, d, p, disc, ret, err>>

\* line 66: return float(V[0]), an IndexError on an empty layer
PriceReturn ==
    /\ pc = "loop"
    /\ i < 0
    /\ IF Len(V) = 0
       THEN pc' = "raised" /\ err' = ErrIndex /\ ret' = ret
       ELSE pc' = "returned" /\ ret' = V[1] /\ err' = err
    /\ UNCHANGED <<gvars, a, dt, u, d, p, disc, V, i, steps>>

\* lines 83-105: the next binomial_price(...) call is entered
GreeksInvoke ==
    /\ gpc = "call"
    /\ pc = "idle"
    /\ calls' = Append(calls, CallArgs(base, Len(calls) + 1))
    /\ a' = CallArgs(base, Len(calls) + 1)
    /\ pc' = "start"
    /\ gpc' = "wait"
    /\ dt' = 0 /\ u' = 0 /\ d' = 0 /\ p' = 0 /\ disc' = 0
    /\ V' = << >>
    /\ i' = 0
    /\ steps' = 0
    /\ ret' = 0
    /\ err' = ""
    /\ UNCHANGED <<mode, base, vals, loc, gerr, result>>

\* the locals bound once the k-th call has returned (lines 88-89, 96, 101, 106)
LocalsAfter(b, w, l) ==
    CASE Len(w) = 3 -> [l EXCEPT !.delta = Div(w[2] - w[3], 2 * b.h_S),
                                 !.gamma = Div(w[2] - 2 * w[1] + w[3], Mul(b.h_S, b.h_S))]
      [] Len(w) = 5 -> [l EXCEPT !.theta = Theta(b, w[4], w[5])]
      [] Len(w) = 7 -> [l EXCEPT !.vega = Div(w[6] - w[7], 2 * b.h_sigma)]
      [] Len(w) = 9 -> [l EXCEPT !.rho = Div(w[8] - w[9], 2 * b.h_r)]
      [] OTHER -> l

\* a binomial_price call returns to greeks_binomial
GreeksResume ==
    /\ gpc = "wait"
    /\ pc = "returned"
    /\ vals' = Append(vals, ret)
    /\ loc' = LocalsAfter(base, vals', loc)
    /\ gpc' = IF Len(vals') = NCalls THEN "combine" ELSE "call"
    /\ pc' = "idle"
    /\ UNCHANGED <<mode, base, calls, gerr, result,
                   a, dt, u, d, p, disc, V, i, steps, ret, err>>

\* GreeksPropagate with the exception caught and the price taken as 0.0
GreeksSwallow ==
    /\ gpc = "wait"
    /\ pc = "raised"
    /\ vals' = Append(vals, 0)
    /\ loc' = LocalsAfter(base, vals', loc)
    /\ gpc' = IF Len(vals') = NCalls THEN "combine" ELSE "call"
    /\ pc' = "idle"
    /\ UNCHANGED <<mode, base, calls, gerr, result,
                   a, dt, u, d, p, disc, V, i, steps, ret, err>>

\* a binomial_price call raises: nothing catches it in greeks_binomial
GreeksPropagate ==
    /\ gpc = "wait"
    /\ pc = "raised"
    /\ gpc' = "raised"
    /\ gerr' = err
    /\ UNCHANGED <<mode, base, calls, vals, loc, result,
                   pc, a, dt, u, d, p, disc, V, i, steps, ret, err>>

\* lines 108-115: return {...}
GreeksReturn ==
    /\ gpc = "combine"
    /\ result' = << [price |-> vals[1], delta |-> loc.delta, gamma |-> loc.gamma,
                     theta |-> loc.theta, vega |-> loc.vega, rho |-> loc.rho] >>
    /\ gpc' = "returned"
    /\ UNCHANGED <<mode, base, calls, vals, loc, gerr,
                   pc, a, dt, u, d, p, disc, V, i, steps, ret, err>>

Next ==
    \/ PriceEnter
    \/ PriceLattice
    \/ PriceMaturity
    \/ PriceBackward
    \/ PriceReturn
    \/ GreeksInvoke
    \/ GreeksResume
    \/ GreeksPropagate
    \/ GreeksReturn

Spec == Init /\ [][Next]_vars

----------------------------------------------------------------------------
(* Properties.                                                             *)

InPricer == pc \notin { "idle", "start" }

\* C1: whenever T <= 0 or N < 1, binomial_price raises the ValueError
\* "T must be > 0 and N must be >= 1" and nothing else, with no lattice
\* parameter, layer or backward step computed and no price returned.
C1_InvalidConfigurationRaised ==
    (InPricer /\ (a.T <= 0 \/ a.N < 1)) =>
        /\ pc = "raised"
        /\ err = ErrConfig
        /\ u = 0 /\ d = 0 /\ p = 0 /\ disc = 0
        /\ V = << >>
        /\ steps = 0

\* the probability the lattice parameters of the state give, read off the
\* state: outside (0, 1), or not a number at all
ProbabilityOutsideUnit ==
    \/ u = d
    \/ LET pv == Div(Exp(Mul(a.r - a.q, dt)) - d, u - d)
       IN  pv <= 0 \/ pv >= SCALE

\* C2: with T > 0 and N >= 1, a probability p outside (0, 1) (p = 0, p = 1
\* and u = d included) ends the call with the probability ValueError before
\* the maturity layer, the discount factor or any backward step exists.
C2_ArbitrageRaised ==
    (a.T > 0 /\ a.N >= 1 /\ pc \notin { "idle", "start", "lattice" }
       /\ ProbabilityOutsideUnit) =>
        /\ pc = "raised"
        /\ err = ErrProbability
        /\ V = << >>
        /\ disc = 0
        /\ steps = 0
        /\ ret = 0

C2_Witness ==
    /\ pc = "raised" /\ err = ErrProbability
    /\ a.T > 0 /\ a.N >= 1
    /\ u # d /\ p = SCALE

C2_WitnessDegenerate ==
    /\ pc = "raised" /\ err = ErrProbability
    /\ a.T > 0 /\ a.N >= 1
    /\ u = d

C2_WitnessNegative ==
    /\ pc = "raised" /\ err = ErrProbability
    /\ a.T > 0 /\ a.N >= 1
    /\ u # d /\ p < 0

\* C3: greeks_binomial returns a dictionary only when all nine calls returned
\* a price; when a call raises, that exception leaves greeks_binomial, no
\* further call is made and nothing is returned.
C3_ErrorsPropagate ==
    /\ Len(result) = 1 =>
          /\ gpc = "returned"
          /\ Len(calls) = NCalls /\ Len(vals) = NCalls
          /\ \A k \in 1..NCalls : PriceOutcome(calls[k]).status = "ok"
    /\ (gpc = "wait" /\ pc = "raised") =>
          /\ Len(result) = 0
          /\ ~ENABLED GreeksInvoke /\ ~ENABLED GreeksResume /\ ~ENABLED GreeksReturn
    /\ gpc = "raised" =>
          /\ gerr = err
          /\ gerr = PriceOutcome(calls[Len(calls)]).status
          /\ gerr # "ok"
          /\ Len(vals) = Len(calls) - 1
          /\ Len(result) = 0
          /\ ~ENABLED Next
    /\ (gpc # "none" /\ Len(calls) > 0) =>
          /\ Len(vals) \in { Len(calls) - 1, Len(calls) }
          /\ Len(result) = 1 \/ Len(vals) < NCalls \/ gpc = "combine"

C3_Witness ==
    /\ gpc = "raised"
    /\ Len(calls) > 1
    /\ Len(result) = 0

\* the fields of the arguments of binomial_price
ArgFields == { "S", "K", "T", "r", "sigma", "N", "option", "style", "q" }

\* the field the k-th call perturbs (none for the first)
Perturbed(k) ==
    CASE k \in { 2, 3 } -> { "S" }
      [] k \in { 4, 5 } -> { "T" }
      [] k \in { 6, 7 } -> { "sigma" }
      [] k \in { 8, 9 } -> { "r" }
      [] OTHER -> { }

Differing(x, y) == { f \in ArgFields : x[f] # y[f] }

\* C4 as stated: nine calls, each bumped one differing from the base
\* arguments in exactly the one perturbed field.
C4_ExactlyOneFieldDiffers ==
    gpc = "returned" =>
        /\ Len(calls) = NCalls
        /\ calls[1] = Args(base)
        /\ \A k \in 2..NCalls : Differing(calls[k], Args(base)) = Perturbed(k)
        /\ result[1].price = vals[1]

\* C4 (amended): a successful greeks_binomial makes exactly nine calls; each
\* passes the caller's K, N, option, style and q and differs from the base
\* arguments in no field but the one it perturbs, which holds S+h_S, S-h_S,
\* T+h_T, max(T-h_T, 1e-6), sigma+h_sigma, sigma-h_sigma, r+h_r, r-h_r in
\* this order; 'price' is the value of the base call.
C4_OnlyPerturbedFieldDiffers ==
    /\ Len(calls) <= NCalls
    /\ gpc = "returned" =>
        /\ Len(calls) = NCalls
        /\ calls[1] = Args(base)
        /\ \A k \in 1..NCalls :
              /\ Differing(calls[k], Args(base)) \subseteq Perturbed(k)
              /\ calls[k].K = base.K /\ calls[k].N = base.N /\ calls[k].q = base.q
              /\ calls[k].option = base.option /\ calls[k].style = base.style
        /\ calls[2].S = base.S + base.h_S
        /\ calls[3].S = base.S - base.h_S
        /\ calls[4].T = base.T + base.h_T
        /\ calls[5].T = Max(base.T - base.h_T, TFloor)
        /\ calls[6].sigma = base.sigma + base.h_sigma
        /\ calls[7].sigma = base.sigma - base.h_sigma
        /\ calls[8].r = base.r + base.h_r
        /\ calls[9].r = base.r - base.h_r
        /\ result[1].price = vals[1]
        /\ result[1].price = PriceOutcome(Args(base)).value

C4_Witness ==
    /\ gpc = "returned"
    /\ base.q # 0
    /\ calls[5] = Args(base)

\* the arguments with the European style in place of the given one
European(x) == [x EXCEPT !.style = "euro"]

\* C5: the American price is at least the European price of the same
\* parameters, and so is every node of every layer.
C5_AmericanAtLeastEuropean ==
    (a.style = "amer" /\ pc \in { "loop", "returned" }) =>
        /\ LET E == LayerAt(European(a), i + 1, u, d, p, disc)
           IN  /\ Len(E) = Len(V)
               /\ \A j \in 1..Len(V) : V[j] >= E[j]
        /\ pc = "returned" =>
              /\ PriceOutcome(European(a)).status = "ok"
              /\ ret >= PriceOutcome(European(a)).value

C5_Witness ==
    /\ a.style = "amer" /\ pc = "returned"
    /\ ret > PriceOutcome(European(a)).value

\* the tolerance of the parity check, in grid units (1e-8)
ParityTol == 100

\* C6: European call and put prices of the same parameters satisfy put-call
\* parity, C - P = S*exp(-q*T) - K*exp(-r*T), within tolerance.
C6_PutCallParity ==
    (pc = "returned" /\ a.option = "call" /\ a.style = "euro") =>
        LET put == PriceOutcome([a EXCEPT !.option = "put"])
            fwd == Mul(a.S, Exp(Mul(-a.q, a.T))) - Mul(a.K, Exp(Mul(-a.r, a.T)))
        IN  /\ put.status = "ok"
            /\ Abs((ret - put.value) - fwd) <= ParityTol

C6_Witness ==
    /\ pc = "returned" /\ a.option = "call" /\ a.style = "euro"
    /\ a.q # 0 /\ a.r # 0 /\ a.N > 1
    /\ ret > 0 /\ PriceOutcome([a EXCEPT !.option = "put"]).value > 0

\* the discounted expectation of the two children of node j, read off a layer
Expectation(W, j) == Mul(disc, Mul(p, W[j + 1]) + Mul(SCALE - p, W[j]))

\* the exercise payoff at node j (from 1) of step n
Exercise(n, j) ==
    LET price == Mul(Mul(a.S, Pow(u, j - 1)), Pow(d, n - (j - 1)))
    IN  IF a.option = "call" THEN Max(price - a.K, 0) ELSE Max(a.K - price, 0)

C7_Shape ==
    /\ (a.T > 0 /\ a.N >= 1 /\ pc = "raised") => ~(0 < p /\ p < SCALE)
    /\ (a.N >= 1 /\ pc = "loop") =>
          /\ i \in -1..(a.N - 1)
          /\ steps = a.N - 1 - i
          /\ Len(V) = i + 2
    /\ (a.N >= 1 /\ pc = "returned") =>
          /\ steps = a.N
          /\ i = -1
          /\ Len(V) = 1
          /\ ret = V[1]

C7_Step ==
    /\ (pc = "maturity" /\ pc' = "loop" /\ a.N >= 1) =>
          i' = a.N - 1 /\ Len(V') = a.N + 1
    /\ (pc = "loop" /\ pc' = "loop" /\ a.N >= 1) =>
          /\ i >= 0
          /\ i' = i - 1
          /\ Len(V') = i + 1
          /\ \A j \in 1..(i + 1) :
                IF a.style = "amer" THEN V'[j] >= Expectation(V, j)
                ELSE V'[j] = Expectation(V, j)
    /\ (pc = "loop" /\ pc' # "loop" /\ a.N >= 1) =>
          pc' = "returned" /\ i = -1 /\ steps = a.N /\ ret' = V[1]

C8_Floor ==
    (a.style = "amer" /\ pc \in { "loop", "returned" }) =>
        \A j \in 1..Len(V) : V[j] >= Exercise(i + 1, j)

C8_Step ==
    (pc = "loop" /\ pc' = "loop") =>
        \A j \in 1..Len(V') :
            V'[j] = IF a.style = "amer"
                    THEN Max(Expectation(V, j), Exercise(i, j))
                    ELSE Expectation(V, j)

\* C8: under American style every layer, after every backward step, holds at
\* each node the larger of the continuation value and the exercise payoff at
\* S*u^j*d^(i-j), so no node is below its payoff; under any other style the
\* layer is the continuation value.
C8_EarlyExercise == []C8_Floor /\ [][C8_Step]_vars

C8_Witness ==
    /\ a.style = "amer" /\ pc = "loop" /\ steps > 0 /\ i >= 0
    /\ \E j \in 1..Len(V) : V[j] = Exercise(i + 1, j) /\ V[j] > 0

\* C9: the down-bumped expiry is max(T - h_T, 1e-6) > 0, so the fifth call
\* never raises the configuration error for N >= 1, and theta is
\* -(vp - vm) / (2*h_T) whether or not the floor is active.
C9_TimeFloor ==
    /\ Tm(base) > 0
    /\ Len(calls) >= 5 =>
          /\ calls[5].T = Max(base.T - base.h_T, TFloor)
          /\ calls[5].T > 0
    /\ (Len(calls) = 5 /\ base.N >= 1 /\ pc = "raised") => err # ErrConfig
    /\ Len(vals) >= 5 => loc.theta = -Div(vals[4] - vals[5], 2 * base.h_T)
    /\ gpc = "returned" =>
          result[1].theta = -Div(vals[4] - vals[5], 2 * base.h_T)

C9_Witness ==
    /\ gpc = "returned"
    /\ base.T - base.h_T < TFloor
    /\ base.T - calls[5].T < base.h_T
    /\ result[1].theta # 0

\* the arguments as the code reads them: any option but 'call' is a put, any
\* style but 'amer' is European
Normalised(x) ==
    [x EXCEPT !.option = IF x.option = "call" THEN "call" ELSE "put",
              !.style = IF x.style = "amer" THEN "amer" ELSE "euro"]

\* C10: an option other than 'call' is priced as a put and a style other
\* than 'amer' as European, at maturity and at every step, and an
\* unrecognised value raises nothing of its own.
C10_UnrecognisedValues ==
    /\ pc \in { "loop", "returned" } =>
          V = LayerAt(Normalised(a), i + 1, u, d, p, disc)
    /\ pc = "returned" =>
          PriceOutcome(Normalised(a)) = [status |-> "ok", value |-> ret]
    /\ pc = "raised" =>
          PriceOutcome(Normalised(a)) = [status |-> err, value |-> 0]

C10_Witness ==
    /\ pc = "returned" /\ ret > 0
    /\ a.option = "Call" /\ a.style = "american"
    /\ ret # PriceOutcome([a EXCEPT !.option = "call", !.style = "amer"]).value

====
